---- MODULE Spec2Model ----
(***************************************************************************)
(* The storage driver of storify-saas (apps/backend/src/storage):          *)
(* S3Storage, its signed-URL cache, the multipart-upload calls, listing,   *)
(* the existence probes and the batched delete.                            *)
(*                                                                         *)
(* Strings are sequences of one-character strings, so that prefix tests,   *)
(* concatenation and number formatting are computed and not assumed.       *)
(* The provider (the S3 client's send) is the environment: each call       *)
(* either resolves with a response or rejects.                             *)
(***************************************************************************)
EXTENDS Integers, Sequences, FiniteSets, TLC

VARIABLES
    config,          \* this.config: the disk options of the driver instance
    now,             \* Date.now(), in milliseconds
    ticks,           \* how many times the clock has advanced
    calls,           \* how many signedUrl calls have been made
    signedUrlCache,  \* this.signedUrlCache: cache key -> [url, expires]
    urlRet,          \* the last signedUrl call: arguments, clock, cache before, result
    store,           \* the bucket: object key -> content
    mpState,         \* the multipart session at the provider: none, open, completed
    mpN,             \* into how many parts the caller has split the object
    mpUploadId,      \* the upload id createMultipartUpload returned to the caller
    mpInFlight,      \* part numbers whose uploadByPart awaits the provider
    mpProvider,      \* the parts the provider holds: part number -> [ETag, Body]
    mpResults,       \* the UploadPartResponse values the caller has collected, in order
    mpRet,           \* the last multipart call and its outcome
    listRet,         \* the last listObjects call: path, provider response, result
    existsRet,       \* the last exists call: path, lookup outcome, result
    missingRet,      \* the last missing call: path, lookup outcome, result
    objRet,          \* the last put or delete call and its outcome
    dibPc,           \* deleteInBatches: idle, loop, awaiting, returned
    dibPaths,        \* deleteInBatches: its argument
    dibI,            \* deleteInBatches: the loop variable i
    dibSent,         \* deleteInBatches: the key lists of the commands sent, in order
    dibOutcomes,     \* deleteInBatches: how each settled command ended
    dibRet,          \* deleteInBatches: the value returned
    urlOfRet,        \* the last url call: path, the signed URL it was cut from, result
    getRet,          \* the last get call since the bucket last changed
    client,          \* this.client: the provider client the constructor created
    ctorRet,         \* the last construction of a driver and its outcome
    dpPc,            \* deletePath: idle, listing, deleting, returned
    dpPath,          \* deletePath: its argument
    dpContents,      \* deletePath: the listing still to be deleted
    dpLog,           \* deletePath: the provider calls made and how each ended
    dpRet,           \* deletePath: the value returned
    stPc,            \* getStream's background read: none, sending, reading, done
    stReturned,      \* getStream has handed the stream to its caller
    stBody,          \* the chunks of the response body not yet read
    stBuffer,        \* the stream's internal buffer: chunks pushed and not consumed
    stEvents,        \* what the stream has been given, in order: data, end, error
    stListener,      \* the caller has attached an 'error' listener
    stConsumed,      \* the caller has taken data out of the stream
    stLog,           \* the background read's provider calls and failures
    mvPending,       \* move: the call that has copied and not yet deleted
    peerCache,       \* signedUrlCache of a second driver built on the same disk
    peerRet          \* the last signedUrl call on that second driver

urlVars == <<config, now, ticks, calls, signedUrlCache, urlRet>>
mpVars == <<mpState, mpN, mpUploadId, mpInFlight, mpProvider, mpResults, mpRet>>

probeVars == <<listRet, existsRet, missingRet, objRet, getRet>>
dibVars == <<dibPc, dibPaths, dibI, dibSent, dibOutcomes, dibRet>>
ctorVars == <<client, ctorRet>>
dpVars == <<dpPc, dpPath, dpContents, dpLog, dpRet>>
stVars ==
    <<stPc, stReturned, stBody, stBuffer, stEvents, stListener, stConsumed, stLog>>
otherVars == <<urlOfRet, mvPending, ctorVars, dpVars, stVars, peerCache, peerRet>>

vars == <<urlVars, store, mpVars, probeVars, dibVars, otherVars>>

----------------------------------------------------------------------------
(* Bounds of the model *)

MaxTicks == 3
MaxCalls == 2
MaxParts == 3
MaxItems == 2
MaxChunks == 2
MaxBody == 3

----------------------------------------------------------------------------
(* Strings *)

DigitChar == <<"0", "1", "2", "3", "4", "5", "6", "7", "8", "9">>

\* String(n) of a non-negative integer, as a template literal renders it
RECURSIVE NumberToString(_)
NumberToString(n) ==
    IF n < 10 THEN <<DigitChar[n + 1]>>
    ELSE NumberToString(n \div 10) \o <<DigitChar[(n % 10) + 1]>>

AlwaysTruthy(s) == TRUE

\* a non-empty string is truthy, '' and undefined are falsy
Truthy(s) == Len(s) > 0

----------------------------------------------------------------------------
(* Disk configuration *)

Visibilities == {"public", "private"}

Configs ==
    [endpoint : {<<>>, <<"h", "/", "/", "e">>},
     bucket : {<<"b">>},
     region : {<<"r">>},
     accessKeyId : {<<"k">>},
     accessSecretKey : {<<"s">>},
     visibility : Visibilities]

\* new S3Client({ region, endpoint, credentials, forcePathStyle }); the
\* path-style flag is not part of the configurations here
ClientFor(cfg) ==
    [region |-> cfg.region, endpoint |-> cfg.endpoint,
     credentials |-> [accessKeyId |-> cfg.accessKeyId,
                      secretAccessKey |-> cfg.accessSecretKey]]

----------------------------------------------------------------------------
(* Construction: new S3Storage(disk, config) and DriverManager.getDriver *)

Disks == {<<"d">>}

\* the driver kinds a configuration may name: the registered one, the other
\* one DiskOptions declares, and names that the driver map, an object literal,
\* inherits from Object.prototype
DriverKinds == {"s3", "local", "constructor", "toString", "__proto__"}

\* a disk configuration before any validation: every field the constructor
\* and getDriver read may be absent (the empty sequence, which also stands
\* for '')
DiskConfigs ==
    [driver : {<<>>} \cup {<<kind>> : kind \in DriverKinds},
     endpoint : {<<>>, <<"h", "/", "/", "e">>},
     bucket : {<<"b">>},
     region : {<<>>, <<"r">>},
     accessKeyId : {<<>>, <<"k">>},
     accessSecretKey : {<<>>, <<"s">>},
     visibility : Visibilities]

\* the state before any driver exists
NotConstructed == [visibility |-> "none"]

\* private readonly driverMap = { s3: S3Storage }
RegisteredKinds == {"s3"}

\* this.driverMap[config.driver]: the own property s3, else what the object
\* literal inherits: Object.prototype.constructor is the function Object,
\* toString is a built-in method that is no constructor, __proto__ is the
\* prototype object; any other name, and an absent kind, gives undefined
DriverMapLookup(driver) ==
    IF driver = <<>> THEN "undefined"
    ELSE IF driver[1] \in RegisteredKinds THEN "S3Storage"
    ELSE IF driver[1] = "constructor" THEN "Object"
    ELSE IF driver[1] = "toString" THEN "method"
    ELSE IF driver[1] = "__proto__" THEN "prototype"
    ELSE "undefined"

\* the first required field the constructor finds missing, checked in the
\* order region, accessKeyId, accessSecretKey
MissingField(cfg) ==
    IF ~Truthy(cfg.region) THEN <<"region">>
    ELSE IF ~Truthy(cfg.accessKeyId) THEN <<"accessKeyId">>
    ELSE IF ~Truthy(cfg.accessSecretKey) THEN <<"accessSecretKey">>
    ELSE <<>>

\* the body of the constructor: it throws before new S3Client, or creates
\* the client; caller names the call that ran it
ConstructorBody(caller, disk, cfg) ==
    IF MissingField(cfg) # <<>>
    THEN /\ ctorRet' = [op |-> caller, disk |-> disk, config |-> cfg,
                        threw |-> TRUE, error |-> "Error",
                        missing |-> MissingField(cfg)]
         /\ UNCHANGED <<config, client>>
    ELSE /\ config' = cfg
         /\ client' = <<ClientFor(cfg)>>
         /\ ctorRet' = [op |-> caller, disk |-> disk, config |-> cfg,
                        threw |-> FALSE, value |-> "S3Storage"]

\* new S3Storage(disk, config)
Construct(disk, cfg) ==
    /\ ConstructorBody("constructor", disk, cfg)
    /\ UNCHANGED <<now, ticks, calls, signedUrlCache, urlRet>>
    /\ UNCHANGED <<store, mpVars, probeVars, dibVars, urlOfRet, mvPending, dpVars,
                   stVars, peerCache, peerRet>>

\* getDriver(disk, config): new driver(disk, config) runs the constructor of
\* S3Storage; new Object(disk, config) returns a String object that wraps
\* the disk name; new of anything that is no constructor is a TypeError
GetDriver(disk, cfg) ==
    LET driver == DriverMapLookup(cfg.driver)
    IN  /\ IF driver = "S3Storage"
           THEN ConstructorBody("getDriver", disk, cfg)
           ELSE IF driver = "Object"
           THEN /\ ctorRet' = [op |-> "getDriver", disk |-> disk, config |-> cfg,
                               threw |-> FALSE, value |-> "String"]
                /\ UNCHANGED <<config, client>>
           ELSE /\ ctorRet' = [op |-> "getDriver", disk |-> disk, config |-> cfg,
                               threw |-> TRUE, error |-> "TypeError"]
                /\ UNCHANGED <<config, client>>
        /\ UNCHANGED <<now, ticks, calls, signedUrlCache, urlRet>>
        /\ UNCHANGED <<store, mpVars, probeVars, dibVars, urlOfRet, mvPending,
                       dpVars, stVars, peerCache, peerRet>>

----------------------------------------------------------------------------
(* signedUrl and its cache *)

MsPerMinute == 60 * 1000
MarginMs == 5 * 60 * 1000
DefaultExpireInMinutes == 20

UrlPaths == {<<"a">>, <<"a", ":", "6">>}
ExpireArgs == {<<>>, <<4>>, <<5>>, <<6>>}
ClockSteps == {MsPerMinute, MarginMs}

\* `${path}:${expireInMinutes}`
CacheKey(path, expireInMinutes) ==
    path \o <<":">> \o NumberToString(expireInMinutes)

\* cached && now < cached.expires - 5 * 60 * 1000
CacheUsableNoMargin(cache, cacheKey, t) ==
    /\ cacheKey \in DOMAIN cache
    /\ t < cache[cacheKey].expires

CacheUsableShortMargin(cache, cacheKey, t) ==
    /\ cacheKey \in DOMAIN cache
    /\ t < cache[cacheKey].expires - MsPerMinute

CacheUsableInclusive(cache, cacheKey, t) ==
    /\ cacheKey \in DOMAIN cache
    /\ t <= cache[cacheKey].expires - MarginMs

CacheUsable(cache, cacheKey, t) ==
    /\ cacheKey \in DOMAIN cache
    /\ t < cache[cacheKey].expires - MarginMs

\* the URL string signedUrl builds: from the endpoint when one is configured,
\* else the virtual-hosted amazonaws.com form
BuildUrl(cfg, path) ==
    IF Truthy(cfg.endpoint)
    THEN cfg.endpoint \o <<"/">> \o cfg.bucket \o <<"/">> \o path
    ELSE <<"https://">> \o cfg.bucket \o <<".s3.">> \o cfg.region
             \o <<".amazonaws.com/">> \o path

\* Map.set
MapSet(m, k, v) == [x \in DOMAIN m \cup {k} |-> IF x = k THEN v ELSE m[x]]

\* the body of signedUrl(path, expireInMinutes): what it returns and what it
\* leaves in the cache
SignedUrlBody(path, expireInMinutes) ==
    LET cacheKey == CacheKey(path, expireInMinutes)
        t == now
    IN  IF CacheUsable(signedUrlCache, cacheKey, t)
        THEN /\ signedUrlCache' = signedUrlCache
             /\ urlRet' = [op |-> "signedUrl", path |-> path,
                           expireInMinutes |-> expireInMinutes, now |-> t,
                           before |-> signedUrlCache, fromCache |-> TRUE,
                           url |-> signedUrlCache[cacheKey].url]
        ELSE LET expiresAt == t + expireInMinutes * MsPerMinute
                 signedUrl == BuildUrl(config, path)
             IN  /\ signedUrlCache' =
                        MapSet(signedUrlCache, cacheKey,
                               [url |-> signedUrl, expires |-> expiresAt])
                 /\ urlRet' = [op |-> "signedUrl", path |-> path,
                               expireInMinutes |-> expireInMinutes, now |-> t,
                               before |-> signedUrlCache, fromCache |-> FALSE,
                               url |-> signedUrl]

\* signedUrl(path, expireInMinutes = 20) called by the application; args holds
\* the optional argument
SignedUrl(path, args) ==
    /\ calls < MaxCalls
    /\ calls' = calls + 1
    /\ SignedUrlBody(path, IF Len(args) = 0 THEN DefaultExpireInMinutes ELSE args[1])
    /\ UNCHANGED <<config, now, ticks>>
    /\ UNCHANGED <<store, mpVars, probeVars, dibVars, otherVars>>

\* s without the split
WholeString(s, ch) == s

\* s.split(ch)[0]
BeforeFirst(s, ch) ==
    LET at == {i \in 1..Len(s) : s[i] = ch}
    IN  IF at = {} THEN s
        ELSE SubSeq(s, 1, (CHOOSE i \in at : \A j \in at : i <= j) - 1)

\* url(path): its effect on the cache; UrlValue is what it returns
UrlBody(path) ==
    IF config.visibility = "private"
    THEN UNCHANGED <<signedUrlCache, urlRet>>
    ELSE SignedUrlBody(path, DefaultExpireInMinutes)

UrlValue(path) ==
    IF config.visibility = "private" THEN <<>>
    ELSE BeforeFirst(urlRet'.url, "?")

\* the clock moves on between calls
Tick ==
    /\ ticks < MaxTicks
    /\ \E d \in ClockSteps : now' = now + d
    /\ ticks' = ticks + 1
    /\ UNCHANGED <<config, calls, signedUrlCache, urlRet>>
    /\ UNCHANGED <<store, mpVars, probeVars, dibVars, otherVars>>

NoCall == [op |-> "none"]

\* one cache for the whole process
CacheOfProcess == signedUrlCache

\* private signedUrlCache = new Map(): a field initialiser, so every driver
\* that is constructed gets a Map of its own; this is the second driver's
CacheOfPeer == peerCache

\* signedUrl(path, expireInMinutes = 20) called on a second driver, built by
\* another getDriver call for the same disk configuration
PeerSignedUrl(path, args) ==
    LET expireInMinutes == IF Len(args) = 0 THEN DefaultExpireInMinutes ELSE args[1]
        cacheKey == CacheKey(path, expireInMinutes)
        t == now
        cache == CacheOfPeer
    IN  /\ calls < MaxCalls
        /\ calls' = calls + 1
        /\ IF CacheUsable(cache, cacheKey, t)
           THEN /\ peerCache' = peerCache
                /\ peerRet' = [op |-> "signedUrl", path |-> path,
                               expireInMinutes |-> expireInMinutes, now |-> t,
                               before |-> peerCache, firstCache |-> signedUrlCache,
                               fromCache |-> TRUE, url |-> cache[cacheKey].url]
           ELSE LET expiresAt == t + expireInMinutes * MsPerMinute
                    signedUrl == BuildUrl(config, path)
                IN  /\ peerCache' =
                           MapSet(peerCache, cacheKey,
                                  [url |-> signedUrl, expires |-> expiresAt])
                    /\ peerRet' = [op |-> "signedUrl", path |-> path,
                                   expireInMinutes |-> expireInMinutes, now |-> t,
                                   before |-> peerCache,
                                   firstCache |-> signedUrlCache,
                                   fromCache |-> FALSE, url |-> signedUrl]
        /\ UNCHANGED <<config, now, ticks, signedUrlCache, urlRet>>
        /\ UNCHANGED <<store, mpVars, probeVars, dibVars, urlOfRet, mvPending,
                       ctorVars, dpVars, stVars>>

UrlOfPaths == {<<"a">>, <<"a", "?", "v">>}

\* url(path) called by the application
Url(path) ==
    /\ calls < MaxCalls
    /\ calls' = calls + 1
    /\ UrlBody(path)
    /\ urlOfRet' = [op |-> "url", path |-> path,
                    signedCall |-> IF config.visibility = "private" THEN NoCall
                                   ELSE urlRet',
                    value |-> UrlValue(path)]
    /\ UNCHANGED <<config, now, ticks>>
    /\ UNCHANGED <<store, mpVars, probeVars, dibVars, mvPending, ctorVars, dpVars, stVars,
                   peerCache, peerRet>>

----------------------------------------------------------------------------
(* Multipart upload: create, uploadByPart, completeMultipartUpload *)

MpPath == <<"a">>
UploadIds == {<<>>, <<"u">>}

\* the bytes of part n of the caller's object
PartBody(n) == <<2 * n, 2 * n + 1>>

\* the provider's content tag of a part body
ETagOf(body) == <<"e">> \o NumberToString(body[1])

Range(seq) == {seq[i] : i \in DOMAIN seq}

\* the part lists a caller can build from the results it holds
PartLists(results, maxLen) ==
    UNION {[1..k -> Range(results)] : k \in 0..maxLen}

\* one step of a stable ascending sort: x goes after every element whose
\* PartNumber is not greater
InsertByPartNumber(sorted, x) ==
    LET before == {i \in DOMAIN sorted : sorted[i].PartNumber <= x.PartNumber}
        k == Cardinality(before)
    IN  SubSeq(sorted, 1, k) \o <<x>> \o SubSeq(sorted, k + 1, Len(sorted))

RECURSIVE OrderByAsc(_)
OrderByAsc(parts) ==
    IF Len(parts) = 0 THEN <<>>
    ELSE InsertByPartNumber(OrderByAsc(SubSeq(parts, 1, Len(parts) - 1)),
                            parts[Len(parts)])

OrderByUnsorted(parts) == parts

OrderByDesc(parts) ==
    LET asc == OrderByAsc(parts)
    IN  [i \in DOMAIN asc |-> asc[Len(asc) + 1 - i]]

\* _.orderBy(multipartUpload, ['PartNumber'], ['asc'])
OrderBy(parts) == OrderByAsc(parts)

RECURSIVE Concat(_)
Concat(seqs) ==
    IF Len(seqs) = 0 THEN <<>> ELSE Head(seqs) \o Concat(Tail(seqs))

\* the provider accepts a completion whose parts are listed in strictly
\* ascending part-number order, each one uploaded and named by its tag
ProviderAccepts(parts) ==
    /\ Len(parts) > 0
    /\ \A i \in 1..(Len(parts) - 1) : parts[i].PartNumber < parts[i + 1].PartNumber
    /\ \A i \in DOMAIN parts :
           /\ parts[i].PartNumber \in DOMAIN mpProvider
           /\ mpProvider[parts[i].PartNumber].ETag = parts[i].ETag

\* the object the provider assembles: the bodies in the order listed
Assemble(parts) == Concat([i \in DOMAIN parts |-> mpProvider[parts[i].PartNumber].Body])

\* createMultipartUpload(path): the provider rejects, or resolves with or
\* without an UploadId
CreateMultipartUpload(n, rejects, uploadId) ==
    /\ mpState = "none"
    /\ IF rejects
       THEN /\ mpRet' = [op |-> "createMultipartUpload", threw |-> TRUE,
                         resolved |-> FALSE, response |-> "rejected"]
            /\ UNCHANGED <<mpState, mpN, mpUploadId>>
       ELSE IF ~Truthy(uploadId)
       THEN /\ mpRet' = [op |-> "createMultipartUpload", threw |-> TRUE,
                         resolved |-> TRUE, response |-> uploadId]
            /\ UNCHANGED <<mpState, mpN, mpUploadId>>
       ELSE /\ mpRet' = [op |-> "createMultipartUpload", threw |-> FALSE,
                         resolved |-> TRUE, response |-> uploadId,
                         value |-> uploadId]
            /\ mpState' = "open"
            /\ mpN' = n
            /\ mpUploadId' = uploadId
    /\ UNCHANGED <<mpInFlight, mpProvider, mpResults>>
    /\ UNCHANGED <<urlVars, store, probeVars, dibVars, otherVars>>

\* uploadByPart(path, body, uploadId, partNumber) up to its await: the
\* UploadPartCommand is sent
UploadByPartSend(partNumber) ==
    /\ mpState = "open"
    /\ partNumber \in 1..mpN
    /\ partNumber \notin mpInFlight
    /\ \A i \in DOMAIN mpResults : mpResults[i].PartNumber # partNumber
    /\ mpInFlight' = mpInFlight \cup {partNumber}
    /\ UNCHANGED <<mpState, mpN, mpUploadId, mpProvider, mpResults, mpRet>>
    /\ UNCHANGED <<urlVars, store, probeVars, dibVars, otherVars>>

\* uploadByPart after its await: the provider rejected, or stored the part and
\* resolved with or without an ETag
UploadByPartSettle(partNumber, rejects, hasTag) ==
    /\ mpState = "open"
    /\ partNumber \in mpInFlight
    /\ mpInFlight' = mpInFlight \ {partNumber}
    /\ IF rejects
       THEN /\ mpRet' = [op |-> "uploadByPart", partNumber |-> partNumber,
                         threw |-> TRUE, resolved |-> FALSE,
                         response |-> "rejected"]
            /\ UNCHANGED <<mpProvider, mpResults>>
       ELSE LET body == PartBody(partNumber)
                etag == IF hasTag THEN ETagOf(body) ELSE <<>>
            IN  /\ mpProvider' = MapSet(mpProvider, partNumber,
                                        [ETag |-> ETagOf(body), Body |-> body])
                /\ IF ~Truthy(etag)
                   THEN /\ mpRet' = [op |-> "uploadByPart", partNumber |-> partNumber,
                                     threw |-> TRUE, resolved |-> TRUE,
                                     response |-> etag]
                        /\ UNCHANGED mpResults
                   ELSE /\ mpRet' = [op |-> "uploadByPart", partNumber |-> partNumber,
                                     threw |-> FALSE, resolved |-> TRUE,
                                     response |-> etag,
                                     value |-> [ETag |-> etag, PartNumber |-> partNumber]]
                        /\ mpResults' = Append(mpResults,
                                               [ETag |-> etag, PartNumber |-> partNumber])
    /\ UNCHANGED <<mpState, mpN, mpUploadId>>
    /\ UNCHANGED <<urlVars, store, probeVars, dibVars, otherVars>>

\* the provider ends an upload session that is open, unless it fails
AbortResolves(rejects) == mpState = "open" /\ ~rejects

\* abortMultipartUpload with the catch leaving the error to the caller
AbortRethrows(rejects) ==
    /\ Truthy(mpUploadId)
    /\ IF AbortResolves(rejects)
       THEN /\ mpState' = "aborted"
            /\ mpProvider' = << >>
            /\ mpRet' = [op |-> "abortMultipartUpload", providerOk |-> TRUE,
                         threw |-> FALSE, value |-> TRUE]
       ELSE /\ mpRet' = [op |-> "abortMultipartUpload", providerOk |-> FALSE,
                         threw |-> TRUE]
            /\ UNCHANGED <<mpState, mpProvider>>
    /\ UNCHANGED <<mpN, mpUploadId, mpInFlight, mpResults>>
    /\ UNCHANGED <<urlVars, store, probeVars, dibVars, otherVars>>

\* abortMultipartUpload(path, uploadId) with an identifier the caller holds:
\* true after the send, false from the catch
AbortMultipartUpload(rejects) ==
    /\ Truthy(mpUploadId)
    /\ IF AbortResolves(rejects)
       THEN /\ mpState' = "aborted"
            /\ mpProvider' = << >>
            /\ mpRet' = [op |-> "abortMultipartUpload", providerOk |-> TRUE,
                         threw |-> FALSE, value |-> TRUE]
       ELSE /\ mpRet' = [op |-> "abortMultipartUpload", providerOk |-> FALSE,
                         threw |-> FALSE, value |-> FALSE]
            /\ UNCHANGED <<mpState, mpProvider>>
    /\ UNCHANGED <<mpN, mpUploadId, mpInFlight, mpResults>>
    /\ UNCHANGED <<urlVars, store, probeVars, dibVars, otherVars>>

\* completeMultipartUpload(path, uploadId, multipartUpload): the parts are
\* ordered, the command is sent, and on success url(path) is returned
CompleteMultipartUpload(multipartUpload, rejects) ==
    LET Parts == OrderBy(multipartUpload)
    IN  /\ mpState = "open"
        /\ IF rejects \/ ~ProviderAccepts(Parts)
           THEN /\ mpRet' = [op |-> "completeMultipartUpload",
                             supplied |-> multipartUpload, Parts |-> Parts,
                             threw |-> TRUE,
                             response |-> IF rejects THEN "rejected" ELSE "invalid"]
                /\ UNCHANGED <<mpState, store, signedUrlCache, urlRet>>
           ELSE /\ mpState' = "completed"
                /\ store' = MapSet(store, MpPath, Assemble(Parts))
                /\ UrlBody(MpPath)
                /\ mpRet' = [op |-> "completeMultipartUpload",
                             supplied |-> multipartUpload, Parts |-> Parts,
                             threw |-> FALSE, response |-> "completed",
                             value |-> [url |-> UrlValue(MpPath), path |-> MpPath]]
        /\ UNCHANGED <<mpN, mpUploadId, mpInFlight, mpProvider, mpResults>>
        /\ UNCHANGED <<config, now, ticks, calls, probeVars, dibVars, otherVars>>

----------------------------------------------------------------------------
(* listObjects *)

ListPaths == {<<"a">>, <<"a", "b">>}

\* a listing entry as the provider returns it; an absent optional field is the
\* empty sequence (for Key this also stands for '', which is falsy all the same)
ListItems ==
    [Key : {<<>>, <<"a">>, <<"a", "b">>, <<"b">>},
     LastModified : {<<>>, <<0>>},
     Size : {<<>>, <<0>>, <<7>>}]

ListResponses ==
    {[kind |-> "rejected"], [kind |-> "resolved", hasContents |-> FALSE]}
    \cup {[kind |-> "resolved", hasContents |-> TRUE, Contents |-> c] :
              c \in UNION {[1..k -> ListItems] : k \in 0..MaxItems}}

\* String.prototype.startsWith
StartsWith(s, prefix) ==
    /\ Len(prefix) <= Len(s)
    /\ SubSeq(s, 1, Len(prefix)) = prefix

NeverOutsidePath(Contents, path) == FALSE

\* results.Contents.some((item) => !item.Key || !item.Key.startsWith(path))
HvContentThatIsNotWithinPath(Contents, path) ==
    \E i \in DOMAIN Contents :
        ~Truthy(Contents[i].Key) \/ ~StartsWith(Contents[i].Key, path)

\* (item) => item.Key && item.LastModified && item.Size !== undefined; a Date
\* is an object and so truthy whatever instant it holds
ListItemComplete(item) ==
    /\ Truthy(item.Key)
    /\ Len(item.LastModified) > 0
    /\ Len(item.Size) > 0

ToListObjectsResponse(item) ==
    [Key |-> item.Key, LastModified |-> item.LastModified[1], Size |-> item.Size[1]]

\* Array.prototype.map with the mapping above
MapToResponses(items) == [i \in DOMAIN items |-> ToListObjectsResponse(items[i])]

\* what listObjects(path) returns for a provider response
ListObjectsValue(path, response) ==
    IF response.kind = "rejected" THEN <<>>
    ELSE IF ~response.hasContents THEN <<>>
    ELSE IF HvContentThatIsNotWithinPath(response.Contents, path) THEN <<>>
    ELSE MapToResponses(SelectSeq(response.Contents, ListItemComplete))

ListObjects(path, response) ==
    /\ listRet' = [op |-> "listObjects", path |-> path, response |-> response,
                   value |-> ListObjectsValue(path, response)]
    /\ UNCHANGED <<urlVars, store, mpVars, existsRet, missingRet, objRet, getRet, dibVars,
                   otherVars>>

----------------------------------------------------------------------------
(* put, delete, exists (through meta), missing *)

ObjPaths == {<<"a">>, <<"b">>}
ObjContents == {<<1>>, <<2, 3>>}

\* Map.delete
MapDelete(m, k) == [x \in DOMAIN m \ {k} |-> m[x]]

\* the HeadObjectCommand resolves when the object is there and the provider
\* does not fail
HeadResolves(path, fails) == path \in DOMAIN store /\ ~fails

\* meta(path): a metadata record in both branches, never null; a nullable
\* result is a sequence of at most one value
MetaValue(path, fails) ==
    IF HeadResolves(path, fails)
    THEN <<[path |-> path, contentType |-> "application/octet-stream",
            contentLength |-> Len(store[path]), lastModified |-> 1]>>
    ELSE <<[path |-> path, contentType |-> "", contentLength |-> 0,
            lastModified |-> 0]>>

\* meta ? true : false
ExistsValue(path, fails) == Len(MetaValue(path, fails)) > 0

\* missing(path): false when the HeadObjectCommand resolves, true when it rejects
MissingValue(path, fails) == ~HeadResolves(path, fails)

Put(path, fileContent, rejects) ==
    /\ IF rejects
       THEN /\ objRet' = [op |-> "put", path |-> path, threw |-> TRUE]
            /\ UNCHANGED <<store, signedUrlCache, urlRet>>
       ELSE /\ store' = MapSet(store, path, fileContent)
            /\ UrlBody(path)
            /\ objRet' = [op |-> "put", path |-> path, threw |-> FALSE,
                          content |-> fileContent,
                          value |-> [url |-> UrlValue(path), path |-> path]]
    /\ getRet' = NoCall
    /\ UNCHANGED <<config, now, ticks, calls, mpVars, listRet, existsRet,
                   missingRet, dibVars, otherVars>>

Delete(path, rejects) ==
    /\ IF rejects
       THEN /\ objRet' = [op |-> "delete", path |-> path, value |-> FALSE]
            /\ UNCHANGED store
       ELSE /\ store' = MapDelete(store, path)
            /\ objRet' = [op |-> "delete", path |-> path, value |-> TRUE]
    /\ getRet' = NoCall
    /\ UNCHANGED <<urlVars, mpVars, listRet, existsRet, missingRet, dibVars, otherVars>>

Exists(path, fails) ==
    /\ existsRet' = [op |-> "exists", path |-> path,
                     lookupOk |-> HeadResolves(path, fails),
                     value |-> ExistsValue(path, fails)]
    /\ UNCHANGED <<urlVars, store, mpVars, listRet, missingRet, objRet, getRet, dibVars,
                   otherVars>>

Missing(path, fails) ==
    /\ missingRet' = [op |-> "missing", path |-> path,
                      lookupOk |-> HeadResolves(path, fails),
                      value |-> MissingValue(path, fails)]
    /\ UNCHANGED <<urlVars, store, mpVars, listRet, existsRet, objRet, getRet, dibVars,
                   otherVars>>

----------------------------------------------------------------------------
(* get, copy, move *)

\* the response body as the chunks its reader yields: the whole content, or
\* the content cut in two after its first cut bytes
ChunksOf(content, cut) ==
    IF cut = 0 THEN <<content>>
    ELSE <<SubSeq(content, 1, cut), SubSeq(content, cut + 1, Len(content))>>

\* what the provider does with a GetObjectCommand: it rejects, it resolves
\* without a Body, or it resolves with a Body whose reads all resolve
\* (failAt = 0) or whose failAt-th read rejects
GetOutcomes(content) ==
    {[kind |-> "rejected"], [kind |-> "noBody"]}
    \cup {[kind |-> "body", cut |-> cut, failAt |-> failAt] :
              cut \in 0..(Len(content) - 1), failAt \in 0..2}

LastChunkOnly(chunks) == chunks[Len(chunks)]

\* streamToBuffer: Buffer.concat of the chunks read until done
StreamToBuffer(chunks) == Concat(chunks)

\* the provider has the object and reads it out to the end
ReadOk(path, outcome) ==
    /\ path \in DOMAIN store
    /\ outcome.kind = "body"
    /\ outcome.failAt \notin 1..(Len(ChunksOf(store[path], outcome.cut)) + 1)

\* get(path): the buffer, or null (the empty sequence) from the missing Body
\* and from the catch
GetValue(path, outcome) ==
    IF path \notin DOMAIN store \/ outcome.kind = "rejected" THEN <<>>
    ELSE IF outcome.kind = "noBody" THEN <<>>
    ELSE IF ~ReadOk(path, outcome) THEN <<>>
    ELSE <<StreamToBuffer(ChunksOf(store[path], outcome.cut))>>

Get(path, outcome) ==
    /\ getRet' = [op |-> "get", path |-> path, readOk |-> ReadOk(path, outcome),
                  threw |-> FALSE, value |-> GetValue(path, outcome)]
    /\ UNCHANGED <<urlVars, store, mpVars, listRet, existsRet, missingRet, objRet,
                   dibVars, otherVars>>

\* the CopyObjectCommand resolves when the source is there and the provider
\* does not fail
CopyResolves(path, rejects) == path \in DOMAIN store /\ ~rejects

\* copy(path, newPath)
Copy(path, newPath, rejects) ==
    /\ IF CopyResolves(path, rejects)
       THEN /\ store' = MapSet(store, newPath, store[path])
            /\ UrlBody(newPath)
            /\ objRet' = [op |-> "copy", path |-> path, newPath |-> newPath,
                          threw |-> FALSE,
                          value |-> [path |-> newPath, url |-> UrlValue(newPath)]]
       ELSE /\ objRet' = [op |-> "copy", path |-> path, newPath |-> newPath,
                          threw |-> TRUE]
            /\ UNCHANGED <<store, signedUrlCache, urlRet>>
    /\ getRet' = NoCall
    /\ UNCHANGED <<config, now, ticks, calls, mpVars, listRet, existsRet,
                   missingRet, dibVars, otherVars>>

\* a move that goes on to its delete whether or not the copy succeeded
MoveCopyCarriesOn(path, newPath, rejects) ==
    /\ mvPending = NoCall
    /\ IF CopyResolves(path, rejects)
       THEN /\ store' = MapSet(store, newPath, store[path])
            /\ UrlBody(newPath)
       ELSE UNCHANGED <<store, signedUrlCache, urlRet>>
    /\ mvPending' = [op |-> "move", path |-> path, newPath |-> newPath]
    /\ getRet' = NoCall
    /\ UNCHANGED <<config, now, ticks, calls, mpVars, listRet, existsRet,
                   missingRet, objRet, dibVars, urlOfRet, ctorVars, dpVars, stVars,
                   peerCache, peerRet>>

\* move(path, newPath) up to the end of await this.copy(path, newPath): the
\* rejection of copy is the rejection of move
MoveCopy(path, newPath, rejects) ==
    /\ mvPending = NoCall
    /\ IF CopyResolves(path, rejects)
       THEN /\ store' = MapSet(store, newPath, store[path])
            /\ UrlBody(newPath)
            /\ mvPending' = [op |-> "move", path |-> path, newPath |-> newPath]
            /\ UNCHANGED objRet
       ELSE /\ objRet' = [op |-> "move", path |-> path, newPath |-> newPath,
                          threw |-> TRUE, sent |-> <<"copy">>,
                          copyOk |-> FALSE, deleteOk |-> FALSE,
                          hadSource |-> path \in DOMAIN store]
            /\ UNCHANGED <<store, signedUrlCache, urlRet, mvPending>>
    /\ getRet' = NoCall
    /\ UNCHANGED <<config, now, ticks, calls, mpVars, listRet, existsRet,
                   missingRet, dibVars, urlOfRet, ctorVars, dpVars, stVars,
                   peerCache, peerRet>>

\* the rest of move with a deletion of the copy added when the delete fails
MoveDeleteCompensates(rejects) ==
    /\ mvPending # NoCall
    /\ store' = IF rejects THEN MapDelete(store, mvPending.newPath)
                ELSE MapDelete(store, mvPending.path)
    /\ UrlBody(mvPending.newPath)
    /\ objRet' = [op |-> "move", path |-> mvPending.path,
                  newPath |-> mvPending.newPath, threw |-> FALSE,
                  sent |-> <<"copy", "delete">>,
                  copyOk |-> TRUE, deleteOk |-> ~rejects,
                  value |-> [path |-> mvPending.newPath,
                             url |-> UrlValue(mvPending.newPath)]]
    /\ mvPending' = NoCall
    /\ getRet' = NoCall
    /\ UNCHANGED <<config, now, ticks, calls, mpVars, listRet, existsRet,
                   missingRet, dibVars, urlOfRet, ctorVars, dpVars, stVars,
                   peerCache, peerRet>>

\* the rest of move: await this.delete(path), whose false is dropped, and
\* return { path: newPath, url: this.url(newPath) }
MoveDelete(rejects) ==
    /\ mvPending # NoCall
    /\ store' = IF rejects THEN store ELSE MapDelete(store, mvPending.path)
    /\ UrlBody(mvPending.newPath)
    /\ objRet' = [op |-> "move", path |-> mvPending.path,
                  newPath |-> mvPending.newPath, threw |-> FALSE,
                  sent |-> <<"copy", "delete">>,
                  copyOk |-> TRUE, deleteOk |-> ~rejects,
                  value |-> [path |-> mvPending.newPath,
                             url |-> UrlValue(mvPending.newPath)]]
    /\ mvPending' = NoCall
    /\ getRet' = NoCall
    /\ UNCHANGED <<config, now, ticks, calls, mpVars, listRet, existsRet,
                   missingRet, dibVars, urlOfRet, ctorVars, dpVars, stVars,
                   peerCache, peerRet>>

----------------------------------------------------------------------------
(* getStream: the stream handed back at once and the background read *)

StPath == <<"a">>

\* new Readable({ read() {} }) sets no highWaterMark: the default of a byte
\* stream applies, and push returns false from that many buffered bytes on
highWaterMark == 16 * 1024

\* the sizes of the chunks a body yields, and the bodies: up to MaxBody chunks
StChunkSizes == {1, highWaterMark}

StBodies == UNION {[1..n -> StChunkSizes] : n \in 0..MaxBody}

RECURSIVE SumSeq(_)
SumSeq(seq) == IF Len(seq) = 0 THEN 0 ELSE Head(seq) + SumSeq(Tail(seq))

\* the bytes held in the stream's buffer
BufferedBytes == SumSeq(stBuffer)

\* getStream(path): the Readable is created, the async function runs up to
\* its first await, where the GetObjectCommand has been sent, and the stream
\* is returned
GetStream(path) ==
    /\ stPc = "none"
    /\ stPc' = "sending"
    /\ stReturned' = TRUE
    /\ stLog' = <<"send">>
    /\ UNCHANGED <<stBody, stBuffer, stEvents, stListener, stConsumed>>
    /\ UNCHANGED <<urlVars, store, mpVars, probeVars, dibVars, urlOfRet, mvPending,
                   ctorVars, dpVars, peerCache, peerRet>>

\* a catch that ends the stream and emits nothing
StCatchSilent(failure) ==
    /\ stLog' = Append(stLog, failure)
    /\ stEvents' = Append(stEvents, "end")
    /\ stPc' = "done"

\* catch (err) { nodeStream.emit('error', err); nodeStream.push(null) }: emit
\* throws the error itself when the stream has no 'error' listener, and then
\* push(null) is not reached and the async function rejects with nobody
\* awaiting it
StCatch(failure) ==
    /\ stLog' = Append(stLog, failure)
    /\ IF stListener
       THEN /\ stEvents' = stEvents \o <<"error", "end">>
            /\ stPc' = "done"
       ELSE /\ stEvents' = Append(stEvents, "error")
            /\ stPc' = "unhandled"

\* await this.client.send(command) rejects
StSendRejected ==
    /\ stPc = "sending"
    /\ StCatch("rejected")
    /\ UNCHANGED <<stReturned, stBody, stBuffer, stListener, stConsumed>>
    /\ UNCHANGED <<urlVars, store, mpVars, probeVars, dibVars, urlOfRet, mvPending,
                   ctorVars, dpVars, peerCache, peerRet>>

\* await this.client.send(command) resolves: with a Body, whose reader is
\* taken, or without one, and then push(null)
StSendResolved(hasBody, body) ==
    /\ stPc = "sending"
    /\ IF hasBody
       THEN /\ stBody' = body
            /\ stPc' = "reading"
            /\ stLog' = Append(stLog, "resolved")
            /\ UNCHANGED stEvents
       ELSE /\ stEvents' = Append(stEvents, "end")
            /\ stPc' = "done"
            /\ stLog' = Append(stLog, "noBody")
            /\ UNCHANGED stBody
    /\ UNCHANGED <<stReturned, stBuffer, stListener, stConsumed>>
    /\ UNCHANGED <<urlVars, store, mpVars, probeVars, dibVars, urlOfRet, mvPending,
                   ctorVars, dpVars, peerCache, peerRet>>

\* await reader.read() gives a chunk: nodeStream.push(Buffer.from(value)),
\* whose result is not looked at, and the loop goes round
StReadChunk ==
    /\ stPc = "reading"
    /\ stBody # <<>>
    /\ stBuffer' = Append(stBuffer, Head(stBody))
    /\ stBody' = Tail(stBody)
    /\ UNCHANGED <<stPc, stReturned, stEvents, stListener, stConsumed, stLog>>
    /\ UNCHANGED <<urlVars, store, mpVars, probeVars, dibVars, urlOfRet, mvPending,
                   ctorVars, dpVars, peerCache, peerRet>>

\* await reader.read() gives done: nodeStream.push(null); break
StReadDone ==
    /\ stPc = "reading"
    /\ stBody = <<>>
    /\ stEvents' = Append(stEvents, "end")
    /\ stPc' = "done"
    /\ UNCHANGED <<stReturned, stBody, stBuffer, stListener, stConsumed, stLog>>
    /\ UNCHANGED <<urlVars, store, mpVars, probeVars, dibVars, urlOfRet, mvPending,
                   ctorVars, dpVars, peerCache, peerRet>>

\* await reader.read() rejects, at any point of the body
StReadFailed ==
    /\ stPc = "reading"
    /\ StCatch("readFailed")
    /\ UNCHANGED <<stReturned, stBody, stBuffer, stListener, stConsumed>>
    /\ UNCHANGED <<urlVars, store, mpVars, probeVars, dibVars, urlOfRet, mvPending,
                   ctorVars, dpVars, peerCache, peerRet>>

\* the caller: nodeStream.on('error', ...)
StAttachErrorListener ==
    /\ stReturned
    /\ ~stListener
    /\ stListener' = TRUE
    /\ UNCHANGED <<stPc, stReturned, stBody, stBuffer, stEvents, stConsumed, stLog>>
    /\ UNCHANGED <<urlVars, store, mpVars, probeVars, dibVars, urlOfRet, mvPending,
                   ctorVars, dpVars, peerCache, peerRet>>

\* the caller takes the oldest buffered chunk out of the stream
StConsume ==
    /\ stReturned
    /\ stBuffer # <<>>
    /\ stBuffer' = Tail(stBuffer)
    /\ stConsumed' = TRUE
    /\ UNCHANGED <<stPc, stReturned, stBody, stEvents, stListener, stLog>>
    /\ UNCHANGED <<urlVars, store, mpVars, probeVars, dibVars, urlOfRet, mvPending,
                   ctorVars, dpVars, peerCache, peerRet>>

----------------------------------------------------------------------------
(* deletePath: listObjects, then delete for every entry of the listing *)

DpPaths == {<<"a">>, <<"a", "b">>, <<"b">>, <<"c">>}

\* the keys of the bucket in the order the provider lists them
DpKeyOrder == <<(<<"a">>), (<<"a", "b">>), (<<"b">>)>>

DpBucket == [key \in Range(DpKeyOrder) |-> <<1>>]

\* what the provider answers a ListObjectsV2Command with the prefix path: the
\* call rejects, or it resolves with the matching keys, and with no Contents
\* when none matches
ProviderListing(path, rejects) ==
    LET Matches(key) == key \in DOMAIN store /\ StartsWith(key, path)
        keys == SelectSeq(DpKeyOrder, Matches)
    IN  IF rejects THEN [kind |-> "rejected"]
        ELSE IF keys = <<>> THEN [kind |-> "resolved", hasContents |-> FALSE]
        ELSE [kind |-> "resolved", hasContents |-> TRUE,
              Contents |-> [i \in DOMAIN keys |->
                               [Key |-> keys[i], LastModified |-> <<0>>,
                                Size |-> <<Len(store[keys[i]])>>]]]

\* deletePath(path) up to its first await
DeletePath(path) ==
    /\ dpPc \in {"idle", "returned"}
    /\ dpPc' = "listing"
    /\ dpPath' = path
    /\ dpContents' = <<>>
    /\ dpLog' = <<>>
    /\ UNCHANGED <<dpRet, store>>
    /\ UNCHANGED <<urlVars, mpVars, probeVars, dibVars, urlOfRet, mvPending, ctorVars,
                   stVars, peerCache, peerRet>>

\* const contents = await this.listObjects(path): listObjects has caught the
\* provider's rejection itself and resolved with []
DpListed(rejects) ==
    /\ dpPc = "listing"
    /\ dpContents' = ListObjectsValue(dpPath, ProviderListing(dpPath, rejects))
    /\ dpLog' = Append(dpLog, [cmd |-> "list", key |-> dpPath, ok |-> ~rejects])
    /\ dpPc' = "deleting"
    /\ UNCHANGED <<dpPath, dpRet, store>>
    /\ UNCHANGED <<urlVars, mpVars, probeVars, dibVars, urlOfRet, mvPending, ctorVars,
                   stVars, peerCache, peerRet>>

\* await this.delete(content.Key): delete has caught the provider's rejection
\* itself and resolved with false, a value the loop does not look at
DpDelete(rejects) ==
    /\ dpPc = "deleting"
    /\ dpContents # <<>>
    /\ store' = IF rejects THEN store ELSE MapDelete(store, Head(dpContents).Key)
    /\ dpLog' = Append(dpLog, [cmd |-> "delete", key |-> Head(dpContents).Key,
                               ok |-> ~rejects])
    /\ dpContents' = Tail(dpContents)
    /\ UNCHANGED <<dpPc, dpPath, dpRet>>
    /\ UNCHANGED <<urlVars, mpVars, probeVars, dibVars, urlOfRet, mvPending, ctorVars,
                   stVars, peerCache, peerRet>>

\* return true after the loop; the catch branch with its return false is not
\* an action: neither listObjects nor delete ever rejects
DpReturnTrue ==
    /\ dpPc = "deleting"
    /\ dpContents = <<>>
    /\ dpPc' = "returned"
    /\ dpRet' = [op |-> "deletePath", path |-> dpPath, threw |-> FALSE, value |-> TRUE]
    /\ UNCHANGED <<dpPath, dpContents, dpLog, store>>
    /\ UNCHANGED <<urlVars, mpVars, probeVars, dibVars, urlOfRet, mvPending, ctorVars,
                   stVars, peerCache, peerRet>>

----------------------------------------------------------------------------
(* deleteInBatches *)

batchSize == 1000

\* the i-th path of the list handed to deleteInBatches
DibPath(i) == <<"k">> \o NumberToString(i)
DibList(n) == [i \in 1..n |-> DibPath(i)]
DibLengths ==
    {q * batchSize + r : q \in 0..MaxChunks,
                         r \in {0, 1, batchSize \div 2, batchSize - 1}}
FullBucket == [k \in {DibPath(i) : i \in 1..((MaxChunks + 1) * batchSize)} |-> <<1>>]

Min(a, b) == IF a < b THEN a ELSE b

SliceOneMore(seq, start, end) == SubSeq(seq, start + 1, Min(end + 1, Len(seq)))

\* Array.prototype.slice(start, end) for 0 <= start <= end
Slice(seq, start, end) == SubSeq(seq, start + 1, Min(end, Len(seq)))

\* deleteInBatches(paths) is called
DeleteInBatches(paths) ==
    /\ dibPc = "idle"
    /\ dibPc' = "loop"
    /\ dibPaths' = paths
    /\ dibI' = 0
    /\ UNCHANGED <<dibSent, dibOutcomes, dibRet>>
    /\ UNCHANGED <<urlVars, store, mpVars, probeVars, otherVars>>

\* the send without the await: the loop goes on to the next batch at once
DibSendNoAwait ==
    /\ dibPc = "loop"
    /\ dibI < Len(dibPaths)
    /\ dibSent' = Append(dibSent, Slice(dibPaths, dibI, dibI + batchSize))
    /\ dibI' = dibI + batchSize
    /\ UNCHANGED <<dibPc, dibPaths, dibOutcomes, dibRet>>
    /\ UNCHANGED <<urlVars, store, mpVars, probeVars, otherVars>>

\* i < totalPaths: the next batch is sliced and its DeleteObjectsCommand sent
DibSend ==
    /\ dibPc = "loop"
    /\ dibI < Len(dibPaths)
    /\ dibSent' = Append(dibSent, Slice(dibPaths, dibI, dibI + batchSize))
    /\ dibPc' = "awaiting"
    /\ UNCHANGED <<dibPaths, dibI, dibOutcomes, dibRet>>
    /\ UNCHANGED <<urlVars, store, mpVars, probeVars, otherVars>>

\* the provider deleted the batch: i += batchSize
DibResolved ==
    /\ dibPc = "awaiting"
    /\ store' = [k \in DOMAIN store \ Range(dibSent[Len(dibSent)]) |-> store[k]]
    /\ dibOutcomes' = Append(dibOutcomes, "ok")
    /\ dibI' = dibI + batchSize
    /\ dibPc' = "loop"
    /\ UNCHANGED <<dibPaths, dibSent, dibRet>>
    /\ UNCHANGED <<urlVars, mpVars, probeVars, otherVars>>

DibRejectedContinues ==
    /\ dibPc = "awaiting"
    /\ dibOutcomes' = Append(dibOutcomes, "failed")
    /\ dibI' = dibI + batchSize
    /\ dibPc' = "loop"
    /\ UNCHANGED <<dibPaths, dibSent, dibRet>>
    /\ UNCHANGED <<urlVars, store, mpVars, probeVars, otherVars>>

\* the provider call failed: catch (err) { return false }
DibRejected ==
    /\ dibPc = "awaiting"
    /\ dibOutcomes' = Append(dibOutcomes, "failed")
    /\ dibRet' = [op |-> "deleteInBatches", value |-> FALSE]
    /\ dibPc' = "returned"
    /\ UNCHANGED <<dibPaths, dibI, dibSent>>
    /\ UNCHANGED <<urlVars, store, mpVars, probeVars, otherVars>>

\* the loop is over: return true
DibReturnTrue ==
    /\ dibPc = "loop"
    /\ ~(dibI < Len(dibPaths))
    /\ dibRet' = [op |-> "deleteInBatches", value |-> TRUE]
    /\ dibPc' = "returned"
    /\ UNCHANGED <<dibPaths, dibI, dibSent, dibOutcomes>>
    /\ UNCHANGED <<urlVars, store, mpVars, probeVars, otherVars>>

----------------------------------------------------------------------------
(* Initial states and specifications *)

\* the driver after construction, its cache empty
InitDriver ==
    /\ config \in Configs
    /\ now = 0
    /\ ticks = 0
    /\ calls = 0
    /\ signedUrlCache = << >>
    /\ urlRet = NoCall
    /\ client = <<ClientFor(config)>>

\* no multipart session
InitMultipart ==
    /\ mpState = "none"
    /\ mpN = 0
    /\ mpUploadId = <<>>
    /\ mpInFlight = {}
    /\ mpProvider = << >>
    /\ mpResults = <<>>
    /\ mpRet = NoCall

\* no call made yet
InitCalls ==
    /\ listRet = NoCall
    /\ existsRet = NoCall
    /\ missingRet = NoCall
    /\ objRet = NoCall
    /\ dibPc = "idle"
    /\ dibPaths = <<>>
    /\ dibI = 0
    /\ dibSent = <<>>
    /\ dibOutcomes = <<>>
    /\ dibRet = NoCall
    /\ urlOfRet = NoCall
    /\ getRet = NoCall
    /\ mvPending = NoCall
    /\ peerCache = << >>
    /\ peerRet = NoCall
    /\ ctorRet = NoCall
    /\ dpPc = "idle"
    /\ dpPath = <<>>
    /\ dpContents = <<>>
    /\ dpLog = <<>>
    /\ dpRet = NoCall
    /\ stPc = "none"
    /\ stReturned = FALSE
    /\ stBody = <<>>
    /\ stBuffer = <<>>
    /\ stEvents = <<>>
    /\ stListener = FALSE
    /\ stConsumed = FALSE
    /\ stLog = <<>>

\* a new driver on an empty bucket
InitEmpty ==
    /\ InitDriver
    /\ InitMultipart
    /\ InitCalls
    /\ store = << >>

\* a new driver on a bucket that holds the keys to delete
InitFull ==
    /\ InitDriver
    /\ InitMultipart
    /\ InitCalls
    /\ store = FullBucket

InitUrl == InitEmpty

NextUrl ==
    \/ \E path \in UrlPaths, args \in ExpireArgs : SignedUrl(path, args)
    \/ Tick

SpecUrl == InitUrl /\ [][NextUrl]_vars

\* two drivers on the same disk, both asked for signed URLs, with the default
\* lifetime or one of six minutes
PeerExpireArgs == {<<>>, <<6>>}

NextPeer ==
    \/ \E path \in UrlPaths, args \in PeerExpireArgs : SignedUrl(path, args)
    \/ \E path \in UrlPaths, args \in PeerExpireArgs : PeerSignedUrl(path, args)
    \/ Tick

SpecPeer == InitUrl /\ [][NextPeer]_vars

\* url alone: it fills and reuses the cache entries of its own signedUrl calls
NextUrlOf ==
    \/ \E path \in UrlOfPaths : Url(path)
    \/ Tick

SpecUrlOf == InitUrl /\ [][NextUrlOf]_vars

InitMp == InitEmpty

\* one multipart session; a completion attempt that failed is not repeated
\* before another part call has been made
NextMp ==
    \/ \E n \in 1..MaxParts, rejects \in BOOLEAN, uploadId \in UploadIds :
           CreateMultipartUpload(n, rejects, uploadId)
    \/ \E partNumber \in 1..MaxParts : UploadByPartSend(partNumber)
    \/ \E partNumber \in 1..MaxParts, rejects \in BOOLEAN, hasTag \in BOOLEAN :
           UploadByPartSettle(partNumber, rejects, hasTag)
    \/ /\ mpRet.op # "completeMultipartUpload"
       /\ \E multipartUpload \in PartLists(mpResults, mpN), rejects \in BOOLEAN :
              CompleteMultipartUpload(multipartUpload, rejects)
    \/ \E rejects \in BOOLEAN : AbortMultipartUpload(rejects)

SpecMp == InitMp /\ [][NextMp]_vars

\* one listObjects call per behaviour: its result depends on nothing but its
\* argument and the provider's response
NextList ==
    /\ listRet = NoCall
    /\ \E path \in ListPaths, response \in ListResponses : ListObjects(path, response)

SpecList == InitEmpty /\ [][NextList]_vars

NextObj ==
    \/ \E path \in ObjPaths, fileContent \in ObjContents, rejects \in BOOLEAN :
           Put(path, fileContent, rejects)
    \/ \E path \in ObjPaths, rejects \in BOOLEAN : Delete(path, rejects)
    \/ \E path \in ObjPaths, fails \in BOOLEAN : Exists(path, fails)
    \/ \E path \in ObjPaths, fails \in BOOLEAN : Missing(path, fails)

SpecObj == InitEmpty /\ [][NextObj]_vars

NextDib ==
    \/ \E n \in DibLengths : DeleteInBatches(DibList(n))
    \/ DibSend
    \/ DibResolved
    \/ DibRejected
    \/ DibReturnTrue

SpecDib == InitFull /\ [][NextDib]_vars

\* no driver yet
InitCtor ==
    /\ config = NotConstructed
    /\ client = <<>>
    /\ now = 0
    /\ ticks = 0
    /\ calls = 0
    /\ signedUrlCache = << >>
    /\ urlRet = NoCall
    /\ InitMultipart
    /\ InitCalls
    /\ store = << >>

\* one construction per behaviour: its outcome depends on nothing but the
\* configuration
NextCtor ==
    \/ /\ ctorRet = NoCall
       /\ \E disk \in Disks, cfg \in DiskConfigs : Construct(disk, cfg)
    \/ /\ ctorRet = NoCall
       /\ \E disk \in Disks, cfg \in DiskConfigs : GetDriver(disk, cfg)

SpecCtor == InitCtor /\ [][NextCtor]_vars

\* one getStream call, its background read and its caller
NextStream ==
    \/ GetStream(StPath)
    \/ StSendRejected
    \/ \E hasBody \in BOOLEAN, body \in StBodies : StSendResolved(hasBody, body)
    \/ StReadChunk
    \/ StReadDone
    \/ StReadFailed
    \/ StAttachErrorListener
    \/ StConsume

SpecStream == InitEmpty /\ [][NextStream]_vars

\* a step in which the pending provider call, the send or a chunk read,
\* completes or fails
StSettles ==
    \/ StSendRejected
    \/ \E hasBody \in BOOLEAN, body \in StBodies : StSendResolved(hasBody, body)
    \/ StReadChunk
    \/ StReadDone
    \/ StReadFailed

\* the same, with every pending provider call eventually completing or
\* failing; the caller is under no obligation to listen or to read
SpecStreamFair == SpecStream /\ WF_vars(StSettles)

\* reads and writes of one caller that awaits each call: put, delete, get,
\* copy and move; nothing else runs between the two halves of a move
NextRw ==
    \/ /\ mvPending = NoCall
       /\ \E path \in ObjPaths, fileContent \in ObjContents, rejects \in BOOLEAN :
              Put(path, fileContent, rejects)
    \/ /\ mvPending = NoCall
       /\ \E path \in ObjPaths, rejects \in BOOLEAN : Delete(path, rejects)
    \/ /\ mvPending = NoCall
       /\ \E path \in ObjPaths :
              \E outcome \in GetOutcomes(IF path \in DOMAIN store THEN store[path]
                                         ELSE <<1>>) :
                  Get(path, outcome)
    \/ /\ mvPending = NoCall
       /\ \E path \in ObjPaths, newPath \in ObjPaths, rejects \in BOOLEAN :
              Copy(path, newPath, rejects)
    \/ \E path \in ObjPaths, newPath \in ObjPaths, rejects \in BOOLEAN :
           MoveCopy(path, newPath, rejects)
    \/ \E rejects \in BOOLEAN : MoveDelete(rejects)

SpecRw == InitEmpty /\ [][NextRw]_vars

\* a new driver on a bucket with three objects, two of them under "a"
InitDp ==
    /\ InitDriver
    /\ InitMultipart
    /\ InitCalls
    /\ store = DpBucket

NextDp ==
    \/ \E path \in DpPaths : DeletePath(path)
    \/ \E rejects \in BOOLEAN : DpListed(rejects)
    \/ \E rejects \in BOOLEAN : DpDelete(rejects)
    \/ DpReturnTrue

SpecDp == InitDp /\ [][NextDp]_vars

\* the driver as a whole
Init == InitCtor \/ InitEmpty \/ InitDp \/ InitFull
Next ==
    \/ NextCtor \/ NextUrl \/ NextPeer \/ NextUrlOf \/ NextMp \/ NextList \/ NextObj \/ NextRw \/ NextStream
    \/ NextDp
    \/ NextDib
Spec == Init /\ [][Next]_vars

----------------------------------------------------------------------------
(* Claims about signedUrl, checked under SpecUrl *)

UrlCalled == urlRet.op = "signedUrl"
UrlKey == CacheKey(urlRet.path, urlRet.expireInMinutes)
UrlHadEntry == UrlKey \in DOMAIN urlRet.before

\* C1: a signedUrl(path, ttl) call made at time now returns the cached URL and
\* leaves the entry as it was when the cache held an entry for (path, ttl) with
\* now < expiry - 5 minutes; in every other case it computes a URL afresh and
\* replaces the entry for (path, ttl) by one with expiry = now + ttl. A cached
\* URL is never returned when now >= expiry - 5 minutes.
C1_CacheHitOrRefresh ==
    UrlCalled =>
        /\ \A k \in DOMAIN urlRet.before \ {UrlKey} :
               k \in DOMAIN signedUrlCache /\ signedUrlCache[k] = urlRet.before[k]
        /\ IF UrlHadEntry /\ urlRet.now < urlRet.before[UrlKey].expires - 5 * 60 * 1000
           THEN /\ urlRet.fromCache
                /\ urlRet.url = urlRet.before[UrlKey].url
                /\ signedUrlCache = urlRet.before
           ELSE /\ ~urlRet.fromCache
                /\ DOMAIN signedUrlCache = DOMAIN urlRet.before \cup {UrlKey}
                /\ signedUrlCache[UrlKey] =
                       [url |-> urlRet.url,
                        expires |-> urlRet.now + urlRet.expireInMinutes * 60 * 1000]

\* C1 witness: a call made exactly 5 minutes before the cached entry's expiry
\* recomputed the URL and replaced the entry
C1_Witness ==
    /\ UrlCalled
    /\ UrlHadEntry
    /\ urlRet.now = urlRet.before[UrlKey].expires - 5 * 60 * 1000
    /\ ~urlRet.fromCache
    /\ signedUrlCache[UrlKey].expires > urlRet.before[UrlKey].expires

\* C2 (as stated): every URL signedUrl returns, for every ttl, has a recorded
\* expiry of at least now + 5 minutes at the moment it is returned.
C2_MarginForEveryTtl ==
    UrlCalled => signedUrlCache[UrlKey].expires >= urlRet.now + 5 * 60 * 1000

\* C2 (amended): every URL signedUrl returns for a ttl of at least 5 minutes,
\* from the cache or freshly computed, has a recorded expiry of at least
\* now + 5 minutes at the moment it is returned.
C2_MarginWhenTtlAtLeastMargin ==
    (UrlCalled /\ urlRet.expireInMinutes >= 5) =>
        signedUrlCache[UrlKey].expires >= urlRet.now + 5 * 60 * 1000

\* C2 witness: a URL was served from the cache some time after it was stored
C2_Witness ==
    /\ UrlCalled
    /\ urlRet.fromCache
    /\ urlRet.expireInMinutes >= 5
    /\ urlRet.now > 0

\* C3: of two signedUrl(path, 20) calls, the second returns the identical URL
\* while the first call's entry is more than the margin before its expiry; a
\* call made after the margin has elapsed returns a URL different from the
\* cached one and stores an entry with a later expiry.
C3_RegeneratedUrlDiffers ==
    (UrlCalled /\ urlRet.expireInMinutes = 20 /\ UrlHadEntry) =>
        IF urlRet.now < urlRet.before[UrlKey].expires - 5 * 60 * 1000
        THEN urlRet.url = urlRet.before[UrlKey].url
        ELSE /\ urlRet.url # urlRet.before[UrlKey].url
             /\ signedUrlCache[UrlKey].expires > urlRet.before[UrlKey].expires

----------------------------------------------------------------------------
(* Claims about the multipart upload, checked under SpecMp *)

CompleteCalled == mpRet.op = "completeMultipartUpload"

Count(seq, e) == Cardinality({i \in DOMAIN seq : seq[i] = e})
SameElements(a, b) ==
    /\ Len(a) = Len(b)
    /\ \A e \in Range(a) \cup Range(b) : Count(a, e) = Count(b, e)

StrictlyAscending(parts) ==
    \A i \in 1..(Len(parts) - 1) : parts[i].PartNumber < parts[i + 1].PartNumber
Ascending(parts) ==
    \A i \in 1..(Len(parts) - 1) : parts[i].PartNumber <= parts[i + 1].PartNumber
DistinctPartNumbers(parts) ==
    \A i, j \in DOMAIN parts : i # j => parts[i].PartNumber # parts[j].PartNumber

\* C4 (as stated): for every list of parts given to completeMultipartUpload, the
\* list submitted to the provider holds exactly the supplied parts in strictly
\* ascending part-number order.
C4_SubmittedStrictlyAscending ==
    CompleteCalled =>
        /\ SameElements(mpRet.supplied, mpRet.Parts)
        /\ StrictlyAscending(mpRet.Parts)

\* C4 (amended): for every list of parts given to completeMultipartUpload, the
\* list submitted to the provider holds exactly the supplied parts in ascending
\* part-number order, strictly ascending when the supplied part numbers are
\* pairwise distinct.
C4_SubmittedAscending ==
    CompleteCalled =>
        /\ SameElements(mpRet.supplied, mpRet.Parts)
        /\ Ascending(mpRet.Parts)
        /\ DistinctPartNumbers(mpRet.supplied) => StrictlyAscending(mpRet.Parts)

\* C4 witness: a list of distinct parts supplied out of order was reordered
C4_Witness ==
    /\ CompleteCalled
    /\ Len(mpRet.supplied) >= 2
    /\ DistinctPartNumbers(mpRet.supplied)
    /\ ~Ascending(mpRet.supplied)
    /\ mpRet.Parts # mpRet.supplied

\* the object obtained when parts 1..n are uploaded and supplied in ascending order
ObjectInOrder(n) == Concat([k \in 1..n |-> PartBody(k)])

AllPartsSupplied ==
    /\ CompleteCalled
    /\ Len(mpResults) = mpN
    /\ mpRet.supplied = mpResults
    /\ mpRet.response # "rejected"

\* C5: when the parts 1..N of a session are uploaded in any order, the results
\* collected as the uploads finish and then given to completeMultipartUpload,
\* the object stored is the one obtained by uploading and supplying the parts
\* in ascending order.
C5_AnyUploadOrderSameObject ==
    AllPartsSupplied =>
        /\ ~mpRet.threw
        /\ MpPath \in DOMAIN store
        /\ store[MpPath] = ObjectInOrder(mpN)

\* C5 witness: three parts finished out of order and the completion succeeded
C5_Witness ==
    /\ AllPartsSupplied
    /\ mpN >= 3
    /\ ~Ascending(mpResults)
    /\ mpState = "completed"

----------------------------------------------------------------------------
(* Claims about deleteInBatches, checked under SpecDib *)

DibReturned == dibPc = "returned"
DibAllSucceeded == \A i \in DOMAIN dibOutcomes : dibOutcomes[i] = "ok"
DibSizes == [i \in DOMAIN dibSent |-> Len(dibSent[i])]

\* C6: when every provider call succeeds, deleteInBatches(paths) with n paths
\* issues exactly ceil(n / 1000) batch-delete calls (none for an empty list), no
\* call carries more than 1000 keys, every call but the last carries exactly
\* 1000, and the key lists concatenated in issue order are the input list; for
\* 2500 paths the sizes are 1000, 1000, 500.
C6_ChunksOfAThousand ==
    (DibReturned /\ DibAllSucceeded) =>
        /\ Len(dibSent) = (Len(dibPaths) + 999) \div 1000
        /\ \A i \in DOMAIN dibSent : Len(dibSent[i]) <= 1000
        /\ \A i \in 1..(Len(dibSent) - 1) : Len(dibSent[i]) = 1000
        /\ Concat(dibSent) = dibPaths
        /\ Len(dibPaths) = 2500 => DibSizes = <<1000, 1000, 500>>

\* C6 witness: a call with 2500 paths returned after all its chunks succeeded
C6_Witness ==
    /\ DibReturned
    /\ DibAllSucceeded
    /\ Len(dibPaths) = 2500
    /\ Len(dibSent) = 3

\* C7: deleteInBatches returns false as soon as one chunk's provider call fails
\* and issues no call for a later chunk; it returns true exactly when every
\* chunk's call succeeded; what the chunks before the failing one deleted stays
\* deleted.
C7_StopsAtFirstFailure ==
    /\ \A i \in DOMAIN dibOutcomes :
           dibOutcomes[i] = "failed" =>
               /\ i = Len(dibSent)
               /\ DibReturned
               /\ dibRet.value = FALSE
    /\ DibReturned =>
           /\ dibRet.value = TRUE <=> DibAllSucceeded
           /\ DOMAIN store =
                  DOMAIN FullBucket \ UNION {Range(dibSent[i]) :
                                                i \in {j \in DOMAIN dibOutcomes :
                                                          dibOutcomes[j] = "ok"}}

\* C7 witness: the second chunk failed after the first succeeded, with a third
\* chunk still to go
C7_Witness ==
    /\ DibReturned
    /\ dibOutcomes = <<"ok", "failed">>
    /\ Len(dibPaths) > 2 * 1000
    /\ DibPath(1) \notin DOMAIN store
    /\ DibPath(1001) \in DOMAIN store

----------------------------------------------------------------------------
(* Claims about listObjects, checked under SpecList *)

ListCalled == listRet.op = "listObjects"
ListHasContents == listRet.response.kind = "resolved" /\ listRet.response.hasContents
HasKey(item) == Len(item.Key) > 0

\* C8: when the provider's listing for listObjects(path) holds at least one key
\* that does not start with path, listObjects returns the empty sequence; every
\* key of a non-empty result starts with path.
C8_ForeignKeyEmptiesListing ==
    ListCalled =>
        /\ (/\ ListHasContents
            /\ \E i \in DOMAIN listRet.response.Contents :
                   /\ HasKey(listRet.response.Contents[i])
                   /\ ~StartsWith(listRet.response.Contents[i].Key, listRet.path))
               => listRet.value = <<>>
        /\ \A i \in DOMAIN listRet.value : StartsWith(listRet.value[i].Key, listRet.path)

\* C8 witness: a listing of one entry under the path and one outside it
C8_Witness ==
    /\ ListCalled
    /\ ListHasContents
    /\ \E i, j \in DOMAIN listRet.response.Contents :
           /\ ListItemComplete(listRet.response.Contents[i])
           /\ StartsWith(listRet.response.Contents[i].Key, listRet.path)
           /\ ListItemComplete(listRet.response.Contents[j])
           /\ ~StartsWith(listRet.response.Contents[j].Key, listRet.path)
    /\ listRet.value = <<>>

\* C9: when every key present in a listing starts with the requested path,
\* listObjects drops only the entries that lack a key, a last-modified instant
\* or a size and returns all the complete ones in their original order; an
\* incomplete entry, one with a missing key included, never loses the complete
\* entries.
C9_IncompleteEntriesOnlyDropped ==
    (/\ ListCalled
     /\ ListHasContents
     /\ \A i \in DOMAIN listRet.response.Contents :
            HasKey(listRet.response.Contents[i]) =>
                StartsWith(listRet.response.Contents[i].Key, listRet.path))
        => listRet.value =
               MapToResponses(SelectSeq(listRet.response.Contents, ListItemComplete))

----------------------------------------------------------------------------
(* Claims about exists and missing, checked under SpecObj *)

\* C10: exists(path) returns true exactly when the provider's metadata lookup
\* for path succeeds and false when it fails; with the same lookup outcome for
\* the same path, exists(path) is the complement of missing(path).
C10_ExistsTracksLookup ==
    /\ existsRet.op = "exists" => (existsRet.value <=> existsRet.lookupOk)
    /\ (/\ existsRet.op = "exists"
        /\ missingRet.op = "missing"
        /\ existsRet.path = missingRet.path
        /\ existsRet.lookupOk = missingRet.lookupOk)
           => existsRet.value = ~missingRet.value

----------------------------------------------------------------------------
(* C13: url *)

UrlOfCalled == urlOfRet.op = "url"

\* C13: url(path) is the empty string on a private disk; on a public disk it
\* is what signedUrl(path, 20) returned, cut before its first '?', so that it
\* holds no '?'
C13_UrlIsSignedUrlWithoutQuery ==
    UrlOfCalled =>
        IF config.visibility = "private"
        THEN urlOfRet.value = <<>>
        ELSE LET v == urlOfRet.value
                 call == urlOfRet.signedCall
                 s == call.url
             IN  /\ call.op = "signedUrl"
                 /\ call.path = urlOfRet.path
                 /\ call.expireInMinutes = 20
                 /\ "?" \notin Range(v)
                 /\ Len(v) <= Len(s)
                 /\ v = SubSeq(s, 1, Len(v))
                 /\ Len(v) < Len(s) => s[Len(v) + 1] = "?"

\* a public disk, a path that holds a '?', and a URL cut short at it
C13_Witness ==
    /\ UrlOfCalled
    /\ config.visibility = "public"
    /\ "?" \in Range(urlOfRet.path)
    /\ Len(urlOfRet.value) < Len(urlOfRet.signedCall.url)

\* a private disk
C13_WitnessPrivate ==
    /\ UrlOfCalled
    /\ config.visibility = "private"
    /\ urlOfRet.value = <<>>

----------------------------------------------------------------------------
(* C11: deletePath *)

DpReturned == dpPc = "returned" /\ dpRet.op = "deletePath"

DpProviderError == \E i \in DOMAIN dpLog : ~dpLog[i].ok

\* C11: a deletePath during which the listing call or the delete of a listed
\* object failed at the provider returns false, and does not throw
C11_ProviderErrorGivesFalse ==
    (DpReturned /\ DpProviderError) => (~dpRet.threw /\ dpRet.value = FALSE)

----------------------------------------------------------------------------
(* C12: move whose delete fails; C17: put, then get *)

\* the last call that changed the bucket was a move that copied and then
\* failed to delete its source
MoveHalfDone ==
    /\ mvPending = NoCall
    /\ objRet.op = "move"
    /\ objRet.copyOk
    /\ ~objRet.deleteOk

\* C12: after a move whose copy succeeded and whose delete of the source
\* failed, the object is at both paths, exists() is true for both, and the
\* only provider calls of the move were the copy and that delete
C12_FailedDeleteLeavesBoth ==
    MoveHalfDone =>
        /\ objRet.path \in DOMAIN store
        /\ objRet.newPath \in DOMAIN store
        /\ store[objRet.newPath] = store[objRet.path]
        /\ \A fails \in BOOLEAN :
               ExistsValue(objRet.path, fails) /\ ExistsValue(objRet.newPath, fails)
        /\ objRet.sent = <<"copy", "delete">>
        /\ ~objRet.threw

C12_Witness ==
    /\ MoveHalfDone
    /\ objRet.path # objRet.newPath
    /\ DOMAIN store = {objRet.path, objRet.newPath}

\* the last call that changed the bucket was a successful put, and the get
\* after it read the same path
GetAfterPut ==
    /\ getRet.op = "get"
    /\ objRet.op = "put"
    /\ ~objRet.threw
    /\ objRet.path = getRet.path

\* C17: a get that follows a successful put of the same path, with no write
\* or delete in between, and whose provider read succeeds returns the content
\* put; a get of an absent object or with a failed provider read returns null;
\* get never throws
C17_GetReturnsWhatWasPut ==
    /\ (GetAfterPut /\ getRet.readOk) => getRet.value = <<objRet.content>>
    /\ (getRet.op = "get" /\ ~getRet.readOk) => getRet.value = <<>>
    /\ getRet.op = "get" => ~getRet.threw

\* a two-byte content put under "a" and read back whole
C17_Witness ==
    /\ GetAfterPut
    /\ getRet.readOk
    /\ objRet.content = <<2, 3>>
    /\ getRet.value = <<(<<2, 3>>)>>
    /\ "a" \in Range(objRet.path)

----------------------------------------------------------------------------
(* C14: abortMultipartUpload; C15: createMultipartUpload and uploadByPart *)

AbortCalled == mpRet.op = "abortMultipartUpload"

\* C14: abortMultipartUpload does not throw; it returns true when the
\* provider's abort call succeeds and false when that call fails
C14_AbortReturnsWhetherProviderAborted ==
    AbortCalled =>
        /\ ~mpRet.threw
        /\ mpRet.value = mpRet.providerOk

\* an abort that the provider refused, and one that ended the session
C14_Witness == AbortCalled /\ ~mpRet.providerOk /\ mpState = "open"

C14_WitnessAborted == AbortCalled /\ mpRet.providerOk /\ mpState = "aborted"

CreateResolved == mpRet.op = "createMultipartUpload" /\ mpRet.resolved

UploadResolved == mpRet.op = "uploadByPart" /\ mpRet.resolved

\* C15: when the provider's response has no upload identifier,
\* createMultipartUpload throws and returns nothing, and otherwise it returns
\* the provider's identifier; when the response has no content tag,
\* uploadByPart throws and returns nothing, and otherwise it returns the
\* provider's tag with the caller's part number
C15_MissingIdOrTagThrows ==
    /\ CreateResolved =>
           IF Len(mpRet.response) = 0
           THEN mpRet.threw /\ "value" \notin DOMAIN mpRet /\ mpUploadId = <<>>
           ELSE ~mpRet.threw /\ mpRet.value = mpRet.response
    /\ UploadResolved =>
           IF Len(mpRet.response) = 0
           THEN mpRet.threw /\ "value" \notin DOMAIN mpRet
           ELSE /\ ~mpRet.threw
                /\ mpRet.value = [ETag |-> mpRet.response,
                                  PartNumber |-> mpRet.partNumber]

\* a part the provider stored and answered without a tag
C15_Witness ==
    /\ UploadResolved
    /\ Len(mpRet.response) = 0
    /\ mpRet.partNumber \in DOMAIN mpProvider

C15_WitnessCreate == CreateResolved /\ Len(mpRet.response) = 0

----------------------------------------------------------------------------
(* C16: construction *)

ConstructorRan ==
    \/ ctorRet.op = "constructor"
    \/ ctorRet.op = "getDriver" /\ DriverMapLookup(ctorRet.config.driver) = "S3Storage"

RequiredFieldAbsent ==
    \E f \in {"region", "accessKeyId", "accessSecretKey"} : ctorRet.config[f] = <<>>

\* the constructor throws, and creates no client, when region, access key id
\* or secret key is absent
CtorFailsFast ==
    (ConstructorRan /\ RequiredFieldAbsent) => (ctorRet.threw /\ client = <<>>)

\* getDriver throws for a driver kind that is not registered
UnregisteredKindFails ==
    (/\ ctorRet.op = "getDriver"
     /\ \A kind \in RegisteredKinds : ctorRet.config.driver # <<kind>>)
        => (ctorRet.threw /\ "value" \notin DOMAIN ctorRet)

\* C16: constructing the driver without region, access key id or secret key
\* throws and creates no client; getDriver for a configuration whose driver
\* kind has no registered constructor throws and returns nothing
C16_ConstructionFailsLoudly == CtorFailsFast /\ UnregisteredKindFails

----------------------------------------------------------------------------
(* C19: deleteInBatches sends one batch at a time *)

\* the batch-delete calls of the invocation that have not completed
DibInFlight == Len(dibSent) - Len(dibOutcomes)

\* C19: at every moment of a deleteInBatches call at most one of its provider
\* calls is in flight, so that chunk N+1 is issued only after chunk N has
\* completed, and the chunks issued so far are the input from its start on,
\* in input order
C19_OneBatchInFlightInOrder ==
    /\ DibInFlight \in {0, 1}
    /\ DibInFlight = 1 <=> dibPc = "awaiting"
    /\ Len(Concat(dibSent)) <= Len(dibPaths)
    /\ Concat(dibSent) = SubSeq(dibPaths, 1, Len(Concat(dibSent)))

\* the third chunk is in flight, the two before it have completed
C19_Witness ==
    /\ dibPc = "awaiting"
    /\ Len(dibSent) = 3
    /\ dibOutcomes = <<"ok", "ok">>

----------------------------------------------------------------------------
(* C18, C20: getStream *)

StFailed == \E i \in DOMAIN stLog : stLog[i] \in {"rejected", "readFailed"}

\* C18: once getStream has been called its caller holds the stream, already
\* while the request is unanswered, and the call itself did not throw; every
\* failure of the background read, of the request or of a chunk read, has
\* been emitted as an 'error' event on that stream
C18_StreamFirstThenErrorEvents ==
    /\ stPc # "none" => stReturned
    /\ stLog = <<"send">> => (stReturned /\ stPc = "sending")
    /\ StFailed => "error" \in Range(stEvents)
    /\ "error" \in Range(stEvents) => StFailed

\* a chunk read that failed after a chunk had been pushed
C18_Witness ==
    /\ stReturned
    /\ "readFailed" \in Range(stLog)
    /\ stBuffer # <<>>
    /\ "error" \in Range(stEvents)

C18_WitnessRequest == stReturned /\ "rejected" \in Range(stLog) /\ stListener

\* the buffer without the chunk pushed last
AllButLast(seq) == SubSeq(seq, 1, Len(seq) - 1)

\* C20: while the caller has consumed nothing, the background loop stalls
\* once the stream signals that it is full: no chunk is read and pushed onto
\* a buffer that already holds highWaterMark bytes, so the buffered data
\* stays below highWaterMark plus one chunk
C20_UnconsumedStreamStalls ==
    (~stConsumed /\ stBuffer # <<>>) =>
        SumSeq(AllButLast(stBuffer)) < highWaterMark

----------------------------------------------------------------------------
(* C21: whose cache, and whether keys leave it *)

PeerCalled == peerRet.op = "signedUrl"

PeerKey == CacheKey(peerRet.path, peerRet.expireInMinutes)

\* at the second driver's call the first driver held a usable entry for the
\* same path and lifetime
FirstHadUsableEntry == CacheUsable(peerRet.firstCache, PeerKey, peerRet.now)

\* after a signedUrl call every key its driver's cache held before is still
\* in it
KeysOnlyGrow ==
    /\ UrlCalled => DOMAIN urlRet.before \subseteq DOMAIN signedUrlCache
    /\ PeerCalled => DOMAIN peerRet.before \subseteq DOMAIN peerCache

\* C21 as stated: the cache is shared by all drivers of the process, so a
\* signedUrl on a second driver is served the usable entry that a signedUrl
\* on the first driver created for the same path and lifetime; and no key is
\* ever removed
C21_CacheSharedNeverEvicted ==
    /\ (PeerCalled /\ FirstHadUsableEntry) =>
           /\ peerRet.fromCache
           /\ peerRet.url = peerRet.firstCache[PeerKey].url
    /\ KeysOnlyGrow

\* C21 amended: each driver has a cache of its own: a signedUrl call is
\* served from the cache exactly when its own driver's cache holds a usable
\* entry, whatever another driver's cache holds; and no key is ever removed
\* from either cache
C21_CachePerDriverNeverEvicted ==
    /\ PeerCalled =>
           (peerRet.fromCache <=> CacheUsable(peerRet.before, PeerKey, peerRet.now))
    /\ UrlCalled =>
           (urlRet.fromCache <=> CacheUsable(urlRet.before, UrlKey, urlRet.now))
    /\ KeysOnlyGrow

\* the second driver regenerates although the first holds a usable entry
C21_Witness ==
    /\ PeerCalled
    /\ FirstHadUsableEntry
    /\ ~peerRet.fromCache
    /\ PeerKey \in DOMAIN peerCache

----------------------------------------------------------------------------
(* C22: lifetimes of five minutes or less *)

ShortTtlCalled == UrlCalled /\ urlRet.expireInMinutes <= 5

\* C22: a signedUrl call with a lifetime of 5 minutes or less is never
\* served from the cache: it computes the URL and overwrites the entry with
\* it and the expiry now + lifetime
C22_ShortTtlNeverHits ==
    ShortTtlCalled =>
        /\ ~urlRet.fromCache
        /\ UrlKey \in DOMAIN signedUrlCache
        /\ signedUrlCache[UrlKey] =
               [url |-> urlRet.url,
                expires |-> urlRet.now + urlRet.expireInMinutes * MsPerMinute]

\* a four-minute entry that has not expired yet and is recomputed all the same
C22_Witness ==
    /\ ShortTtlCalled
    /\ urlRet.expireInMinutes = 4
    /\ UrlHadEntry
    /\ urlRet.now < urlRet.before[UrlKey].expires

----------------------------------------------------------------------------
(* C23: the order of copy and delete in move, and what move reports *)

MoveReturned == mvPending = NoCall /\ objRet.op = "move"

\* C23: move issues its delete only after its copy has succeeded: while a
\* move is between the two the copy is in place; a move whose copy failed
\* threw, sent no delete and left the source where it was; a move whose copy
\* succeeded returns { path: newPath, url } without an error whether its
\* delete succeeded or failed
C23_DeleteOnlyAfterCopy ==
    /\ mvPending # NoCall =>
           /\ mvPending.newPath \in DOMAIN store
           /\ mvPending.path \in DOMAIN store
    /\ (MoveReturned /\ ~objRet.copyOk) =>
           /\ objRet.threw
           /\ objRet.sent = <<"copy">>
           /\ "value" \notin DOMAIN objRet
           /\ objRet.hadSource => objRet.path \in DOMAIN store
    /\ (MoveReturned /\ objRet.copyOk) =>
           /\ ~objRet.threw
           /\ objRet.sent = <<"copy", "delete">>
           /\ objRet.value.path = objRet.newPath
           /\ objRet.deleteOk => objRet.path \notin DOMAIN store

\* a copy the provider refused although the source is there
C23_Witness ==
    /\ MoveReturned
    /\ ~objRet.copyOk
    /\ objRet.hadSource
    /\ objRet.path \in DOMAIN store
    /\ objRet.path # objRet.newPath

\* a normal result from a move whose delete failed
C23_WitnessSilent ==
    /\ MoveReturned
    /\ objRet.copyOk
    /\ ~objRet.deleteOk
    /\ ~objRet.threw
    /\ objRet.path # objRet.newPath
    /\ objRet.path \in DOMAIN store

----------------------------------------------------------------------------
(* C24: the end of the stream *)

StEnded == "end" \in Range(stEvents)

\* the background read of a stream that has ended pushes nothing more
NoDataAfterEnd == [][StEnded => stBuffer' = stBuffer \/ stBuffer' = Tail(stBuffer)]_vars

\* the background read has run to its last statement
StFinished == stPc = "done"

\* on the paths that reach the push of the marker it is pushed once
EndsWhenFinished ==
    /\ StFinished => (StEnded /\ stEvents[Len(stEvents)] = "end")
    /\ stPc = "unhandled" => (StFailed /\ ~StEnded)

\* C24: once getStream has been called, and as long as the provider call and
\* every chunk read complete or fail, the end-of-stream marker is eventually
\* pushed, on the failure paths as well, and no data is pushed after it
C24_StreamEventuallyEnds ==
    /\ (stPc # "none") ~> StEnded
    /\ NoDataAfterEnd

====
